---- MODULE Spec2Model ----
(***************************************************************************)
(* Model of src/bot.py (telegram-expense-bot): the amount normaliser       *)
(* to_int, the message parser parse_expense_message, and the ledger /      *)
(* monthly-summary state machine driven by handle_expense,                 *)
(* add_expense_to_sheet, update_monthly_summary and get_today_summary.     *)
(*                                                                         *)
(* Strings are sequences of one-character strings.  The two worksheets     *)
(* are sequences of rows.  Every sink call (append_row, get_all_records,   *)
(* update_cell) may raise; the call that raises is an input of the action. *)
(***************************************************************************)
EXTENDS Integers, Sequences, FiniteSets, TLC

VARIABLES now, ledger, summary, reply, last, hist, ti, pm

vars == <<now, ledger, summary, reply, last, hist, ti, pm>>

(***************************************************************************)
(* Bounds                                                                  *)
(***************************************************************************)
MaxNow == 2
MaxAppends == 1
MaxFloatTenths == 25
MaxStr == 3
MaxLen == 7

(***************************************************************************)
(* Characters and Python str methods                                       *)
(***************************************************************************)
LowerCase == <<"a","b","e","h","i","j","k","l","m","n","o","p","r","s","t","u","x","y","z">>
UpperCase == <<"A","B","E","H","I","J","K","L","M","N","O","P","R","S","T","U","X","Y","Z">>
DigitChars == <<"0","1","2","3","4","5","6","7","8","9">>

Range(f) == {f[i] : i \in DOMAIN f}
MaxOf(S) == CHOOSE x \in S : \A y \in S : y <= x

LowerLetters == Range(LowerCase)
UpperLetters == Range(UpperCase)
Digits == Range(DigitChars)
Spaces == {" ", "\n", "\t"}

IsLower(c) == c \in LowerLetters
IsUpper(c) == c \in UpperLetters
IsCased(c) == IsLower(c) \/ IsUpper(c)
IsDigit(c) == c \in Digits
IsWord(c) == IsCased(c) \/ IsDigit(c) \/ c = "_"
IsSpace(c) == c \in Spaces

LowerChar(c) == IF IsUpper(c) THEN LowerCase[CHOOSE i \in DOMAIN UpperCase : UpperCase[i] = c] ELSE c
UpperChar(c) == IF IsLower(c) THEN UpperCase[CHOOSE i \in DOMAIN LowerCase : LowerCase[i] = c] ELSE c

\* str.lower()
Lower(s) == [i \in 1..Len(s) |-> LowerChar(s[i])]

\* str.title(): a cased character is upper-cased when it does not follow a
\* cased character, lower-cased when it does.
Title(s) == [i \in 1..Len(s) |->
               IF i > 1 /\ IsCased(s[i-1]) THEN LowerChar(s[i]) ELSE UpperChar(s[i])]

\* str.strip()
RECURSIVE LStrip(_)
LStrip(s) == IF s # <<>> /\ IsSpace(Head(s)) THEN LStrip(Tail(s)) ELSE s

RECURSIVE RStrip(_)
RStrip(s) == IF s # <<>> /\ IsSpace(s[Len(s)]) THEN RStrip(SubSeq(s, 1, Len(s) - 1)) ELSE s

Strip(s) == RStrip(LStrip(s))

DigitVal(c) == (CHOOSE i \in DOMAIN DigitChars : DigitChars[i] = c) - 1

\* int() of a run of decimal digits
RECURSIVE IntOfDigits(_)
IntOfDigits(s) == IF s = <<>> THEN 0
                  ELSE 10 * IntOfDigits(SubSeq(s, 1, Len(s) - 1)) + DigitVal(s[Len(s)])

(***************************************************************************)
(* to_int (src/bot.py 52-66)                                               *)
(*                                                                         *)
(* A Python value is [t, v, s]: t its type ("int", "float", "bool",        *)
(* "none", "str"; "inf" and "nan" are the non-finite floats), v the        *)
(* integer of an int, the tenths of a finite float, the sign of an inf,    *)
(* s the characters of a str.                                              *)
(***************************************************************************)
Val(t, v, s) == [t |-> t, v |-> v, s |-> s]
IntVal(n) == Val("int", n, <<>>)
StrVal(s) == Val("str", 0, s)

Returned(n) == [raised |-> FALSE, val |-> n]
Raised == [raised |-> TRUE, val |-> 0]

\* int(float): truncation toward zero of a finite float given in tenths
TruncTenths(x) == IF x >= 0 THEN x \div 10 ELSE -((-x) \div 10)

\* re.sub(r'[^0-9\-]', '', s)
KeepDigitsMinus(s) == SelectSeq(s, LAMBDA c : IsDigit(c) \/ c = "-")

\* int(s) accepts an optional sign followed by digits; anything else is ValueError
IntLiteralOk(s) == /\ s # <<>>
                   /\ LET body == IF Head(s) = "-" THEN Tail(s) ELSE s
                      IN body # <<>> /\ \A i \in DOMAIN body : IsDigit(body[i])

IntOfLiteral(s) == IF Head(s) = "-" THEN -IntOfDigits(Tail(s)) ELSE IntOfDigits(s)

\* int(value) of line 55: OverflowError on an infinity, ValueError on a NaN
IntOfNumber(value) ==
  IF value.t = "int" THEN Returned(value.v)
  ELSE IF value.t = "float" THEN Returned(TruncTenths(value.v))
  ELSE Raised

\* str(value) of line 58, reached by a bool or a str
StrOf(value) ==
  IF value.t = "bool"
  THEN (IF value.v = 1 THEN <<"T","r","u","e">> ELSE <<"F","a","l","s","e">>)
  ELSE value.s

to_int(value) ==
  IF value.t \in {"int", "float", "inf", "nan"} THEN IntOfNumber(value)
  ELSE IF value.t = "none" THEN Returned(0)
  ELSE LET s == KeepDigitsMinus(Strip(StrOf(value)))
       IN IF s = <<>> \/ s = <<"-">> THEN Returned(0)
          ELSE IF IntLiteralOk(s) THEN Returned(IntOfLiteral(s))
          ELSE Returned(0)

(***************************************************************************)
(* parse_expense_message (src/bot.py 258-271)                              *)
(*                                                                         *)
(* re.match(r'^(\w+)\s+(\d+)\s+(.+)$', text.strip()): the split points of  *)
(* the five pieces, each quantifier greedy, backtracking from the right.   *)
(* '.' matches every character but the line feed.                          *)
(***************************************************************************)
AllIn(s, a, b, P(_)) == \A p \in a..b : P(s[p])
NotNewline(c) == c # "\n"

\* l: end of the second \s+ ; (.+)$ takes the rest
EndsWs2(s, k) == {l \in (k+1)..(Len(s)-1) :
                    AllIn(s, k+1, l, IsSpace) /\ AllIn(s, l+1, Len(s), NotNewline)}
\* k: end of (\d+)
EndsDigits(s, j) == {k \in (j+1)..Len(s) : AllIn(s, j+1, k, IsDigit) /\ EndsWs2(s, k) # {}}
\* j: end of the first \s+
EndsWs1(s, i) == {j \in (i+1)..Len(s) : AllIn(s, i+1, j, IsSpace) /\ EndsDigits(s, j) # {}}
\* i: end of (\w+)
EndsToken(s) == {i \in 1..Len(s) : AllIn(s, 1, i, IsWord) /\ EndsWs1(s, i) # {}}

NoMatch == [matched |-> FALSE, kategori |-> <<>>, jumlah |-> 0, deskripsi |-> <<>>]

\* the parser without the .lower() of line 264
parse_expense_message_keeps_case(message_text) ==
  LET s == Strip(message_text) IN
  IF EndsToken(s) = {} THEN NoMatch
  ELSE LET i == MaxOf(EndsToken(s))
           j == MaxOf(EndsWs1(s, i))
           k == MaxOf(EndsDigits(s, j))
           l == MaxOf(EndsWs2(s, k))
       IN [matched |-> TRUE,
           kategori |-> SubSeq(s, 1, i),
           jumlah |-> IntOfDigits(SubSeq(s, j+1, k)),
           deskripsi |-> SubSeq(s, l+1, Len(s))]

parse_expense_message(message_text) ==
  LET s == Strip(message_text) IN
  IF EndsToken(s) = {} THEN NoMatch
  ELSE LET i == MaxOf(EndsToken(s))
           j == MaxOf(EndsWs1(s, i))
           k == MaxOf(EndsDigits(s, j))
           l == MaxOf(EndsWs2(s, k))
       IN [matched |-> TRUE,
           kategori |-> Lower(SubSeq(s, 1, i)),
           jumlah |-> IntOfDigits(SubSeq(s, j+1, k)),
           deskripsi |-> SubSeq(s, l+1, Len(s))]

(***************************************************************************)
(* Idle values of the parts of the state a specification does not use      *)
(***************************************************************************)
NoReply == [kind |-> "none", count |-> 0, total |-> 0, cats |-> <<>>]
NoLast == [op |-> "init", user_id |-> 0, text |-> <<>>, parsed |-> FALSE,
           attempted |-> FALSE, sinkFailed |-> FALSE, success |-> FALSE,
           month_str |-> <<>>, label |-> <<>>, again |-> FALSE]
NoHist == [dup0 |-> FALSE, upserted |-> {}, appends |-> 0]
TiIdle == [value |-> Val("none", 0, <<>>), done |-> FALSE, result |-> Returned(0)]
PmIdle == [shape |-> "idle", token |-> <<>>, digits |-> <<>>, desc |-> <<>>,
           text |-> <<>>, done |-> FALSE, result |-> NoMatch]

(***************************************************************************)
(* The clock: datetime.now() and its strftime formats                      *)
(***************************************************************************)
MonthNames == <<"January", "February", "March", "April", "May", "June", "July",
                "August", "September", "October", "November", "December">>

\* the date t days after 30 December 2025
DateOf(t) == IF t <= 1 THEN [year |-> 2025, month |-> 12, day |-> 30 + t]
             ELSE [year |-> 2026, month |-> 1, day |-> t - 1]

\* strftime("%Y-%m-%d"), strftime("%Y-%m"), strftime("%B %Y"): the fields of
\* the string, in order
StrfYmd(d) == <<d.year, d.month, d.day>>
StrfYm(d) == <<d.year, d.month>>
StrfBY(d) == <<MonthNames[d.month], d.year>>

\* str.startswith
StartsWith(s, prefix) == Len(prefix) <= Len(s) /\ SubSeq(s, 1, Len(prefix)) = prefix

(***************************************************************************)
(* The two worksheets                                                      *)
(*                                                                         *)
(* ledger: the rows of the main worksheet under its header, as             *)
(* get_all_records returns them.  summary: the rows of 'Ringkasan Bulanan' *)
(* under the header of row SUMMARY_HEADER_ROW, each the eight cells        *)
(* <<label, makan, transport, belanja, hiburan, kesehatan, lainnya, total>>*)
(***************************************************************************)
SUMMARY_HEADER_ROW == 3

makan == <<"m","a","k","a","n">>
transport == <<"t","r","a","n","s","p","o","r","t">>
belanja == <<"b","e","l","a","n","j","a">>
hiburan == <<"h","i","b","u","r","a","n">>
kesehatan == <<"k","e","s","e","h","a","t","a","n">>
lainnya == <<"l","a","i","n","n","y","a">>

categories == <<makan, transport, belanja, hiburan, kesehatan, lainnya>>

\* lines 335-351: one pass over the records; a record whose date is empty or
\* outside the month, or whose amount makes to_int raise, is skipped
RECURSIVE MonthlyData(_, _)
MonthlyData(records, current_month_str) ==
  IF records = <<>> THEN [c \in Range(categories) |-> 0]
  ELSE LET monthly_data == MonthlyData(SubSeq(records, 1, Len(records) - 1), current_month_str)
           record == records[Len(records)]
           category == Lower(record.kategori)
           amount == to_int(record.jumlah)
       IN IF record.tanggal = <<>> \/ ~StartsWith(record.tanggal, current_month_str)
          THEN monthly_data
          ELSE IF amount.raised THEN monthly_data
          ELSE IF category \in DOMAIN monthly_data
          THEN [monthly_data EXCEPT ![category] = @ + amount.val]
          ELSE [monthly_data EXCEPT ![lainnya] = @ + amount.val]

\* line 353: sum(monthly_data.values())
RECURSIVE SumValues(_, _)
SumValues(monthly_data, n) ==
  IF n = 0 THEN 0 ELSE SumValues(monthly_data, n - 1) + monthly_data[categories[n]]

\* lines 364-373
RowData(current_month_name, monthly_data, total) ==
  <<current_month_name>> \o [n \in 1..Len(categories) |-> monthly_data[categories[n]]]
    \o <<total>>

\* the matching loop that never matches
existing_row_never(summary_records, current_month_name) == 0

\* the matching loop without its break: the last matching record wins
existing_row_last(summary_records, current_month_name) ==
  IF \E i \in DOMAIN summary_records : summary_records[i][1] = current_month_name
  THEN (CHOOSE i \in DOMAIN summary_records :
          /\ summary_records[i][1] = current_month_name
          /\ \A p \in (i+1)..Len(summary_records) : summary_records[p][1] # current_month_name)
       - 1 + SUMMARY_HEADER_ROW + 1
  ELSE 0

\* lines 357-362: the sheet row of the first record whose label is the
\* month's, 0 for None
existing_row_of(summary_records, current_month_name) ==
  IF \E i \in DOMAIN summary_records : summary_records[i][1] = current_month_name
  THEN (CHOOSE i \in DOMAIN summary_records :
          /\ summary_records[i][1] = current_month_name
          /\ \A p \in 1..(i-1) : summary_records[p][1] # current_month_name)
       - 1 + SUMMARY_HEADER_ROW + 1
  ELSE 0

\* update_cell that adds the value to the number the cell holds
update_cell_adds(rows, row, col, value) ==
  LET i == row - SUMMARY_HEADER_ROW
  IN IF i \in DOMAIN rows
     THEN [rows EXCEPT ![i][col] = IF col = 1 THEN value ELSE @ + value]
     ELSE rows

\* summary_worksheet.update_cell(row, col, value): sheet row `row` is the
\* data row row - SUMMARY_HEADER_ROW; a row above the data is not a record
update_cell(rows, row, col, value) ==
  LET i == row - SUMMARY_HEADER_ROW
  IN IF i \in DOMAIN rows THEN [rows EXCEPT ![i][col] = value] ELSE rows

\* lines 377-378: the first n calls of the cell-by-cell loop
RECURSIVE UpdateCells(_, _, _, _)
UpdateCells(rows, existing_row, row_data, n) ==
  IF n = 0 THEN rows
  ELSE update_cell(UpdateCells(rows, existing_row, row_data, n - 1),
                   existing_row, n, row_data[n])

(***************************************************************************)
(* Sink failures: the call that raises, an input of every operation        *)
(***************************************************************************)
Fail(op, n) == [op |-> op, n |-> n]
NoFail == Fail("none", 0)
FailPoints ==
  {NoFail, Fail("append_record", 0), Fail("read_all_records", 0),
   Fail("read_all_summary_rows", 0), Fail("append_summary_row", 0)}
    \cup {Fail("update_summary_cell", n) : n \in 1..(Len(categories) + 2)}

(***************************************************************************)
(* update_monthly_summary (src/bot.py 323-389)                             *)
(*                                                                         *)
(* t1, t2: the clock at the datetime.now() of line 326 and of line 327.    *)
(* failed: a sink call raised.  raised: the exception leaves the function. *)
(***************************************************************************)
Upsert(rows, failed, raised, current_month_str, current_month_name) ==
  [summary |-> rows, failed |-> failed, raised |-> raised,
   month_str |-> current_month_str, label |-> current_month_name]

\* the try block, lines 326-386 (format_summary_worksheet only styles cells
\* and catches its own exceptions)
update_monthly_summary_try(records, rows, t1, t2, fail) ==
  LET current_month_str == StrfYm(DateOf(t1))
      current_month_name == StrfBY(DateOf(t2))
      Out(new_rows, failed) ==
        Upsert(new_rows, failed, failed, current_month_str, current_month_name)
  IN IF fail.op = "read_all_records" THEN Out(rows, TRUE)
     ELSE LET monthly_data == MonthlyData(records, current_month_str)
              total == SumValues(monthly_data, Len(categories))
          IN IF fail.op = "read_all_summary_rows" THEN Out(rows, TRUE)
             ELSE LET existing_row == existing_row_of(rows, current_month_name)
                      row_data == RowData(current_month_name, monthly_data, total)
                  IN IF existing_row # 0
                     THEN (IF fail.op = "update_summary_cell"
                           THEN Out(UpdateCells(rows, existing_row, row_data, fail.n - 1), TRUE)
                           ELSE Out(UpdateCells(rows, existing_row, row_data, Len(row_data)), FALSE))
                     ELSE (IF fail.op = "append_summary_row"
                           THEN Out(rows, TRUE)
                           ELSE Out(Append(rows, row_data), FALSE))

\* update_monthly_summary without the except of lines 388-389
update_monthly_summary_reraises(records, rows, t1, t2, fail) ==
  update_monthly_summary_try(records, rows, t1, t2, fail)

\* lines 325, 388-389: every exception is logged and swallowed
update_monthly_summary(records, rows, t1, t2, fail) ==
  [update_monthly_summary_try(records, rows, t1, t2, fail) EXCEPT !.raised = FALSE]

(***************************************************************************)
(* add_expense_to_sheet (src/bot.py 273-294)                               *)
(*                                                                         *)
(* t0: the clock at the datetime.now() of line 276.  apply_row_formatting  *)
(* only styles cells and catches its own exceptions.                       *)
(***************************************************************************)
LedgerRow(tanggal, kategori, deskripsi, jumlah, user_id) ==
  [tanggal |-> tanggal, kategori |-> kategori, deskripsi |-> deskripsi,
   jumlah |-> jumlah, user_id |-> user_id]

\* add_expense_to_sheet that inserts the new record above the first data row
add_expense_to_sheet_inserts_first(records, rows, user_id, kategori, jumlah, deskripsi, t0, t1, t2, fail) ==
  LET tanggal == StrfYmd(DateOf(t0))
      row_data == LedgerRow(tanggal, Title(kategori), deskripsi, IntVal(jumlah), user_id)
  IN IF fail.op = "append_record"
     THEN [ledger |-> records, summary |-> rows, success |-> FALSE, attempted |-> FALSE,
           sinkFailed |-> TRUE, month_str |-> <<>>, label |-> <<>>]
     ELSE LET u == update_monthly_summary(<<row_data>> \o records, rows, t1, t2, fail)
          IN [ledger |-> <<row_data>> \o records, summary |-> u.summary,
              success |-> ~u.raised, attempted |-> TRUE, sinkFailed |-> u.failed,
              month_str |-> u.month_str, label |-> u.label]

add_expense_to_sheet(records, rows, user_id, kategori, jumlah, deskripsi, t0, t1, t2, fail) ==
  LET tanggal == StrfYmd(DateOf(t0))
      row_data == LedgerRow(tanggal, Title(kategori), deskripsi, IntVal(jumlah), user_id)
  IN IF fail.op = "append_record"
     THEN [ledger |-> records, summary |-> rows, success |-> FALSE, attempted |-> FALSE,
           sinkFailed |-> TRUE, month_str |-> <<>>, label |-> <<>>]
     ELSE LET u == update_monthly_summary(Append(records, row_data), rows, t1, t2, fail)
          IN [ledger |-> Append(records, row_data), summary |-> u.summary,
              success |-> ~u.raised, attempted |-> TRUE, sinkFailed |-> u.failed,
              month_str |-> u.month_str, label |-> u.label]

(***************************************************************************)
(* get_today_summary (src/bot.py 417-463)                                  *)
(***************************************************************************)
Reply(kind) == [kind |-> kind, count |-> 0, total |-> 0, cats |-> <<>>]

\* lines 423-426
RECURSIVE TodayExpenses(_, _, _)
TodayExpenses(records, today, user_id) ==
  IF records = <<>> THEN <<>>
  ELSE LET rest == TodayExpenses(SubSeq(records, 1, Len(records) - 1), today, user_id)
           record == records[Len(records)]
       IN IF record.tanggal = today /\ record.user_id = user_id
          THEN Append(rest, record) ELSE rest

\* lines 440-444: categories_today, a dict in insertion order
RECURSIVE CategoriesToday(_)
CategoriesToday(today_expenses) ==
  IF today_expenses = <<>> THEN <<>>
  ELSE LET rest == CategoriesToday(SubSeq(today_expenses, 1, Len(today_expenses) - 1))
           expense == today_expenses[Len(today_expenses)]
           cat == Lower(expense.kategori)
           amount == to_int(expense.jumlah).val
       IN IF \E i \in DOMAIN rest : rest[i][1] = cat
          THEN [i \in DOMAIN rest |->
                  IF rest[i][1] = cat THEN <<cat, rest[i][2] + amount>> ELSE rest[i]]
          ELSE Append(rest, <<cat, amount>>)

RECURSIVE SumAmounts(_)
SumAmounts(expenses) ==
  IF expenses = <<>> THEN 0
  ELSE SumAmounts(Tail(expenses)) + to_int(Head(expenses).jumlah).val

get_today_summary(records, user_id, t, fail) ==
  IF fail.op = "read_all_records" THEN Reply("summary_error")
  ELSE LET today == StrfYmd(DateOf(t))
           today_expenses == TodayExpenses(records, today, user_id)
       IN IF today_expenses = <<>> THEN Reply("no_expenses_today")
          ELSE IF \E i \in DOMAIN today_expenses : to_int(today_expenses[i].jumlah).raised
          THEN Reply("summary_error")
          ELSE [kind |-> "today_report", count |-> Len(today_expenses),
                total |-> SumAmounts(today_expenses),
                cats |-> CategoriesToday(today_expenses)]

(***************************************************************************)
(* handle_expense (src/bot.py 568-581)                                     *)
(***************************************************************************)
Handled(records, rows, kind, user_id, text, parsed, a) ==
  [ledger |-> records, summary |-> rows, reply |-> Reply(kind),
   last |-> [op |-> "handle_expense", user_id |-> user_id, text |-> text, parsed |-> parsed,
             attempted |-> a.attempted, sinkFailed |-> a.sinkFailed,
             success |-> a.success, month_str |-> a.month_str, label |-> a.label,
             again |-> FALSE]]

NotCalled == [attempted |-> FALSE, sinkFailed |-> FALSE, success |-> FALSE,
              month_str |-> <<>>, label |-> <<>>]

\* handle_expense that files an unparseable message under lainnya
handle_expense_guesses(records, rows, user_id, text, t0, t1, t2, fail) ==
  LET p == parse_expense_message(text)
      a == add_expense_to_sheet(records, rows, user_id,
                                IF p.matched THEN p.kategori ELSE lainnya,
                                p.jumlah, p.deskripsi, t0, t1, t2, fail)
  IN Handled(a.ledger, a.summary,
             IF a.success THEN "saved" ELSE "save_failed", user_id, text, p.matched, a)

handle_expense(records, rows, user_id, text, t0, t1, t2, fail) ==
  LET p == parse_expense_message(text) IN
  IF ~p.matched THEN Handled(records, rows, "format_error", user_id, text, FALSE, NotCalled)
  ELSE LET a == add_expense_to_sheet(records, rows, user_id, p.kategori, p.jumlah,
                                     p.deskripsi, t0, t1, t2, fail)
       IN Handled(a.ledger, a.summary,
                  IF a.success THEN "saved" ELSE "save_failed", user_id, text, TRUE, a)

(***************************************************************************)
(* Spec: the bot serving messages, one handler at a time                   *)
(***************************************************************************)
Users == {1, 2}

Messages == {makan \o <<" ", "5", " ", "x">>,
             <<"H", "o", "b", "i", " ", "3", " ", "y">>,
             makan \o <<" ", "x">>}

\* a ledger row typed into the sheet by hand
HandRow(jumlah) == LedgerRow(StrfYmd(DateOf(0)), <<"M","a","k","a","n">>, <<"x">>, jumlah, 1)

InitLedgers == {<<>>,
                <<HandRow(StrVal(<<"R", "p", " ", "1", ".", "0">>))>>,
                <<HandRow(Val("inf", 1, <<>>))>>}

\* the summary sheet of an earlier run; in the second, the row of December
\* 2025 has been duplicated by hand
InitSummaries ==
  {<<>>,
   << <<StrfBY(DateOf(0)), 1, 0, 0, 0, 0, 0, 1>>, <<StrfBY(DateOf(0)), 2, 0, 0, 0, 0, 0, 2>> >>}

LabelCount(rows, label) == Cardinality({i \in DOMAIN rows : rows[i][1] = label})
NoDuplicateLabel(rows) == \A i \in DOMAIN rows : LabelCount(rows, rows[i][1]) = 1

Init ==
  /\ now = 0
  /\ ledger \in InitLedgers
  /\ summary \in InitSummaries
  /\ reply = NoReply
  /\ last = NoLast
  /\ hist = [dup0 |-> ~NoDuplicateLabel(summary), upserted |-> {}, appends |-> 0]
  /\ ti = TiIdle
  /\ pm = PmIdle

HandleExpense(user_id, text, dt1, dt2, fail) ==
  /\ hist.appends < MaxAppends
  /\ now + dt1 + dt2 <= MaxNow
  /\ \E h \in {handle_expense(ledger, summary, user_id, text,
                               now, now + dt1, now + dt1 + dt2, fail)} :
        /\ ledger' = h.ledger
        /\ summary' = h.summary
        /\ reply' = h.reply
        /\ last' = h.last
        /\ hist' = [hist EXCEPT !.upserted =
                                   IF h.last.attempted /\ ~h.last.sinkFailed
                                   THEN @ \cup {h.last.label} ELSE @,
                                 !.appends = @ + Len(h.ledger) - Len(ledger)]
  /\ now' = now + dt1 + dt2
  /\ UNCHANGED <<ti, pm>>

UpdateMonthlySummary(dt, fail) ==
  /\ now + dt <= MaxNow
  /\ \E u \in {update_monthly_summary(ledger, summary, now, now + dt, fail)} :
        /\ summary' = u.summary
        /\ last' = [NoLast EXCEPT !.op = "update_monthly_summary", !.attempted = TRUE,
                                  !.sinkFailed = u.failed, !.success = ~u.raised,
                                  !.month_str = u.month_str, !.label = u.label,
                                  !.again = /\ last.op = "update_monthly_summary"
                                            /\ ~last.sinkFailed
                                            /\ last.month_str = u.month_str
                                            /\ last.label = u.label]
        /\ hist' = [hist EXCEPT !.upserted = IF u.failed THEN @ ELSE @ \cup {u.label}]
  /\ now' = now + dt
  /\ reply' = NoReply
  /\ UNCHANGED <<ledger, ti, pm>>

GetTodaySummary(user_id, fail) ==
  /\ reply' = get_today_summary(ledger, user_id, now, fail)
  /\ last' = [NoLast EXCEPT !.op = "get_today_summary", !.user_id = user_id,
                            !.sinkFailed = (fail # NoFail)]
  /\ UNCHANGED <<now, ledger, summary, hist, ti, pm>>

Tick ==
  /\ now < MaxNow
  /\ now' = now + 1
  /\ reply' = NoReply
  /\ last' = [NoLast EXCEPT !.op = "tick"]
  /\ UNCHANGED <<ledger, summary, hist, ti, pm>>

Next ==
  \/ \E user_id \in Users, text \in Messages, dt1 \in {0, 1}, dt2 \in {0, 1},
        fail \in FailPoints : HandleExpense(user_id, text, dt1, dt2, fail)
  \/ \E dt \in {0, 1}, fail \in FailPoints \ {Fail("append_record", 0)} :
        UpdateMonthlySummary(dt, fail)
  \/ \E user_id \in Users, fail \in {NoFail, Fail("read_all_records", 0)} :
        GetTodaySummary(user_id, fail)
  \/ Tick

Spec == Init /\ [][Next]_vars

(***************************************************************************)
(* Properties of Spec                                                      *)
(***************************************************************************)
\* the step just taken handled an expense message that parsed
HandledExpense == last.op = "handle_expense" /\ last.parsed

\* the first summary row labelled `label`, 0 if there is none
FirstRow(rows, label) ==
  IF \E i \in DOMAIN rows : rows[i][1] = label
  THEN CHOOSE i \in DOMAIN rows :
         rows[i][1] = label /\ \A p \in 1..(i-1) : rows[p][1] # label
  ELSE 0

RECURSIVE SumOver(_, _)
SumOver(S, f) ==
  IF S = {} THEN 0 ELSE LET x == CHOOSE x \in S : TRUE IN f[x] + SumOver(S \ {x}, f)

\* the category a stored category folds into
BucketOf(kategori) ==
  IF Lower(kategori) \in Range(categories) THEN Lower(kategori) ELSE lainnya

\* the normalized amount of a record: to_int of the cell, 0 when it has none
NormalizedAmount(record) ==
  IF to_int(record.jumlah).raised THEN 0 ELSE to_int(record.jumlah).val

\* the sum, over the records of the month that fold into category c, of the
\* normalized amounts
ExpectedTotal(records, month_str, c) ==
  SumOver({i \in DOMAIN records : /\ StartsWith(records[i].tanggal, month_str)
                                  /\ BucketOf(records[i].kategori) = c},
          [i \in DOMAIN records |-> NormalizedAmount(records[i])])

\* C1: starting from a summary table without duplicate labels, after any
\* sequence of upserts no two rows share a label and every label that was
\* upserted has exactly one row.
C1_OneRowPerLabel ==
  ~hist.dup0 => /\ NoDuplicateLabel(summary)
                /\ \A label \in hist.upserted : LabelCount(summary, label) = 1

\* both months have been upserted into a table that started without duplicates
C1_Witness ==
  /\ ~hist.dup0 /\ Cardinality(hist.upserted) = 2 /\ Len(summary) = 2
  /\ last.op = "update_monthly_summary" /\ ~last.sinkFailed

C3_TotalIsSum ==
  \A i \in DOMAIN summary :
    summary[i][Len(categories) + 2] =
      SumOver(1..Len(categories), [n \in 1..Len(categories) |-> summary[i][n + 1]])

\* C4: after every add_expense_to_sheet call in which no sink operation
\* failed, the row of the current month holds, for each category, the sum of
\* the normalized amounts of the ledger's records of the current month that
\* fold into it.
C4_RowIsCurrentAggregate ==
  (HandledExpense /\ ~last.sinkFailed) =>
    LET i == FirstRow(summary, StrfBY(DateOf(now))) IN
      /\ i # 0
      /\ \A n \in 1..Len(categories) :
           summary[i][n + 1] = ExpectedTotal(ledger, StrfYm(DateOf(now)), categories[n])

\* The formula of C4 with both clock reads of update_monthly_summary in the
\* month the call ends in: the row then is the aggregate.
RowIsAggregateWithoutClockChange ==
  (HandledExpense /\ ~last.sinkFailed /\ last.month_str = StrfYm(DateOf(now))) =>
    LET i == FirstRow(summary, StrfBY(DateOf(now))) IN
      /\ i # 0
      /\ \A n \in 1..Len(categories) :
           summary[i][n + 1] = ExpectedTotal(ledger, StrfYm(DateOf(now)), categories[n])

\* C5: a message whose category token is not one of the six is stored under
\* its title-cased token; its amount is in the lainnya cell of the month's
\* summary row (when the upsert completed, for the month of the record), and
\* the daily view reports the six categories only, lainnya holding the
\* amounts of the day's records that fold into it.
C5_UnknownCategoryFoldsIntoLainnya ==
  /\ (HandledExpense /\ last.attempted
        /\ parse_expense_message(last.text).kategori \notin Range(categories))
     => /\ ledger[Len(ledger)].kategori = Title(parse_expense_message(last.text).kategori)
        /\ (/\ ~last.sinkFailed
            /\ StartsWith(ledger[Len(ledger)].tanggal, last.month_str)
            /\ last.label = StrfBY(DateOf(now)) /\ last.month_str = StrfYm(DateOf(now)))
           => LET i == FirstRow(summary, last.label) IN
                /\ i # 0
                /\ summary[i][Len(categories) + 1]
                     = ExpectedTotal(ledger, last.month_str, lainnya)
  /\ (last.op = "get_today_summary" /\ reply.kind = "today_report")
     => \A k \in DOMAIN reply.cats :
          /\ reply.cats[k][1] \in Range(categories)
          /\ reply.cats[k][1] = lainnya
             => reply.cats[k][2] =
                  SumOver({i \in DOMAIN ledger :
                             /\ ledger[i].tanggal = StrfYmd(DateOf(now))
                             /\ ledger[i].user_id = last.user_id
                             /\ BucketOf(ledger[i].kategori) = lainnya},
                          [i \in DOMAIN ledger |-> NormalizedAmount(ledger[i])])

\* C6: add_expense_to_sheet never partially commits: either the record is
\* appended and the upsert attempted, or False is returned and the summary is
\* as it was; False is never returned after a summary cell or row changed.
C6_NoPartialCommit ==
  [][(last'.op = "handle_expense" /\ last'.parsed)
     => /\ \/ /\ Len(ledger') = Len(ledger) + 1
              /\ SubSeq(ledger', 1, Len(ledger)) = ledger
              /\ last'.attempted
           \/ ~last'.success /\ summary' = summary
        /\ ~last'.success => summary' = summary]_vars

\* add_expense_to_sheet has returned False
C6_Witness ==
  HandledExpense /\ ~last.success /\ last.sinkFailed /\ reply.kind = "save_failed"

\* C7: when a sink data operation fails while an expense message is handled,
\* add_expense_to_sheet returns False and the user gets the failure message.
C7_FailureSurfaced ==
  (HandledExpense /\ last.sinkFailed) => ~last.success /\ reply.kind = "save_failed"

\* C8: a message that parse_expense_message does not match is answered with
\* the format-error prompt and writes nothing to either sheet.
C8_NoMatchNoWrite ==
  [][(last'.op = "handle_expense" /\ ~parse_expense_message(last'.text).matched)
     => /\ reply'.kind = "format_error"
        /\ ledger' = ledger
        /\ summary' = summary]_vars

\* an unparseable message has been answered
C8_Witness ==
  /\ last.op = "handle_expense" /\ ~last.parsed
  /\ ~parse_expense_message(last.text).matched
  /\ reply.kind = "format_error"

\* C11: the ledger is append-only.  Every step keeps the records the ledger
\* holds, in their order; a step that handles a parsed message whose append
\* succeeds adds exactly one record, the message's, at the end; every other
\* step leaves the ledger as it is.
C11_LedgerAppendOnly ==
  [][/\ Len(ledger') >= Len(ledger)
     /\ SubSeq(ledger', 1, Len(ledger)) = ledger
     /\ IF last'.op = "handle_expense" /\ last'.parsed /\ last'.attempted
        THEN /\ Len(ledger') = Len(ledger) + 1
             /\ ledger'[Len(ledger')].user_id = last'.user_id
             /\ ledger'[Len(ledger')].deskripsi = parse_expense_message(last'.text).deskripsi
             /\ ledger'[Len(ledger')].jumlah = IntVal(parse_expense_message(last'.text).jumlah)
        ELSE ledger' = ledger]_vars

\* a record has been appended below a record the ledger already held
C11_Witness ==
  /\ HandledExpense /\ last.attempted
  /\ Len(ledger) = 2
  /\ \E l \in InitLedgers : l # <<>> /\ ledger[1] = l[1]
  /\ ledger[2].user_id = last.user_id

\* C12: an upsert changes only one row.  In every step that calls
\* update_monthly_summary: if a row carries the period label, the table keeps
\* its length, every row but the first such row keeps its values and position
\* (a later row with the same label included) and, when no sink operation
\* fails, the first such row holds the label and the month's totals; if no row
\* carries the label, every existing row is kept and, when no sink operation
\* fails, exactly one row with the label is appended after them.  A step that
\* does not call update_monthly_summary leaves the table as it is.
C12_UpsertChangesOneRow ==
  [][IF last'.attempted
     THEN LET label == last'.label
              i == FirstRow(summary, label)
              n == Len(summary)
          IN IF i # 0
             THEN /\ Len(summary') = n
                  /\ \A j \in 1..n : j # i => summary'[j] = summary[j]
                  /\ ~last'.sinkFailed =>
                       /\ summary'[i][1] = label
                       /\ \A c \in 1..Len(categories) :
                            summary'[i][c + 1] =
                              ExpectedTotal(ledger', last'.month_str, categories[c])
             ELSE /\ SubSeq(summary', 1, n) = summary
                  /\ IF last'.sinkFailed
                     THEN summary' = summary
                     ELSE /\ Len(summary') = n + 1
                          /\ summary'[n + 1][1] = label
     ELSE summary' = summary]_vars

\* in a table where the label is on two rows, an upsert has rewritten the
\* first of them and the second holds what it held at the start
C12_Witness ==
  /\ hist.dup0 /\ last.attempted /\ ~last.sinkFailed
  /\ \E rows \in InitSummaries :
        /\ Len(rows) = 2 /\ Len(summary) = 2
        /\ last.label = rows[1][1] /\ rows[2][1] = rows[1][1]
        /\ summary[2] = rows[2]
        /\ summary[1] # rows[1]

\* the records of the ledger dated today that carry the user id of the request
TodayOf(user_id) ==
  {i \in DOMAIN ledger : /\ ledger[i].tanggal = StrfYmd(DateOf(now))
                         /\ ledger[i].user_id = user_id}

\* C13: after get_today_summary(u) has read the ledger, the reply is the fixed
\* 'no expenses yet' message if and only if no record is dated today with user
\* id u; otherwise it is a report whose transaction count and total are those
\* of exactly these records.
C13_TodayReportOverOwnRecords ==
  (last.op = "get_today_summary" /\ ~last.sinkFailed) =>
    LET mine == TodayOf(last.user_id) IN
      /\ reply.kind = "no_expenses_today" <=> mine = {}
      /\ mine # {} =>
           /\ reply.kind = "today_report"
           /\ reply.count = Cardinality(mine)
           /\ reply.total = SumOver(mine, [i \in DOMAIN ledger |-> NormalizedAmount(ledger[i])])

\* The formula of C13 where to_int returns for the amount of every record of
\* the request: the reply then is as C13 says.
TodayReportWhenAmountsConvert ==
  (/\ last.op = "get_today_summary" /\ ~last.sinkFailed
   /\ \A i \in TodayOf(last.user_id) : ~to_int(ledger[i].jumlah).raised) =>
    LET mine == TodayOf(last.user_id) IN
      /\ reply.kind = "no_expenses_today" <=> mine = {}
      /\ mine # {} =>
           /\ reply.kind = "today_report"
           /\ reply.count = Cardinality(mine)
           /\ reply.total = SumOver(mine, [i \in DOMAIN ledger |-> NormalizedAmount(ledger[i])])

\* C14: after a parsed message has been appended and the summary upserted by
\* the same call, whatever the clock did in between, the month of the stored
\* date of the new record, the YYYY-MM prefix that filtered the records and
\* the period label of the upserted row are one month, and, when no sink
\* operation failed, the row with that label counts the new record.
C14_OneMonthPerCall ==
  (HandledExpense /\ last.attempted) =>
    LET record == ledger[Len(ledger)]
        i == FirstRow(summary, last.label)
    IN /\ StartsWith(record.tanggal, last.month_str)
       /\ last.label = <<MonthNames[last.month_str[2]], last.month_str[1]>>
       /\ ~last.sinkFailed =>
            /\ i # 0
            /\ \A c \in 1..Len(categories) :
                 summary[i][c + 1] =
                   ExpectedTotal(ledger, <<record.tanggal[1], record.tanggal[2]>>, categories[c])

SeqsUpTo(S, n) == UNION {[1..m -> S] : m \in 0..n}
NonEmptySeqsUpTo(S, n) == UNION {[1..m -> S] : m \in 1..n}

(***************************************************************************)
(* SpecToInt: to_int applied to one stored cell value                      *)
(***************************************************************************)
StrChars == {"1", "2", "-", "R", " ", "."}

ToIntInputs ==
  {IntVal(n) : n \in -3..3}
    \cup {Val("float", x, <<>>) : x \in -MaxFloatTenths..MaxFloatTenths}
    \cup {Val("inf", 1, <<>>), Val("inf", -1, <<>>), Val("nan", 0, <<>>)}
    \cup {Val("bool", 0, <<>>), Val("bool", 1, <<>>), Val("none", 0, <<>>)}
    \cup {StrVal(s) : s \in SeqsUpTo(StrChars, MaxStr)}

InitToInt ==
  /\ now = 0 /\ ledger = <<>> /\ summary = <<>> /\ reply = NoReply /\ last = NoLast
  /\ hist = NoHist
  /\ pm = PmIdle
  /\ \E value \in ToIntInputs : ti = [value |-> value, done |-> FALSE, result |-> Returned(0)]

CallToInt ==
  /\ ~ti.done
  /\ ti' = [ti EXCEPT !.done = TRUE, !.result = to_int(ti.value)]
  /\ UNCHANGED <<now, ledger, summary, reply, last, hist, pm>>

NextToInt == CallToInt

SpecToInt == InitToInt /\ [][NextToInt]_vars

\* the inputs of to_int from which no digit can be extracted
NoDigits(value) ==
  /\ value.t \in {"str", "bool", "none"}
  /\ \A i \in DOMAIN StrOf(value) : ~IsDigit(StrOf(value)[i])

\* C10: to_int is total: it returns an integer without raising for every
\* numeric input (non-finite floats included) and every string input, and
\* returns 0 whenever the input has no digit.
C10_ToIntTotal ==
  ti.done => /\ ~ti.result.raised
             /\ NoDigits(ti.value) => ti.result.val = 0

(***************************************************************************)
(* SpecParse: parse_expense_message applied to one message                 *)
(*                                                                         *)
(* The message is built from its fields, in the order of the grammar       *)
(* ("valid") or in another one, so that the expected result is known from  *)
(* the construction and not from the pattern.                              *)
(***************************************************************************)
TokChars == {"a", "B", "1"}
WsChars == {" ", "\n"}
AmountChars == {"0", "7"}
DescChars == {"x", "1", " ", "\n"}

\* a description: what is left of the message once the separator is taken
Descs(n) == {d \in NonEmptySeqsUpTo(DescChars, n) : ~IsSpace(d[1]) /\ ~IsSpace(d[Len(d)])}

Pads == {<<>>, <<" ">>}

HasNonDigit(s) == \E i \in DOMAIN s : ~IsDigit(s[i])

\* the first word of the description is not a number: the description cannot
\* be read as "<digits> <rest>"
FirstWordNotNumber(d) ==
  \E i \in DOMAIN d : ~IsDigit(d[i]) /\ \A p \in 1..i : ~IsSpace(d[p])

Message(shape, pad, token, ws1, digits, ws2, desc) ==
  pad \o (CASE shape = "valid" -> token \o ws1 \o digits \o ws2 \o desc
            [] shape = "no_amount" -> token \o ws1 \o desc
            [] shape = "amount_first" -> digits \o ws1 \o token \o ws2 \o desc
            [] shape = "amount_last" -> token \o ws1 \o desc \o ws2 \o digits) \o pad

InitParse ==
  /\ now = 0 /\ ledger = <<>> /\ summary = <<>> /\ reply = NoReply /\ last = NoLast
  /\ hist = NoHist
  /\ ti = TiIdle
  /\ \E shape \in {"valid", "no_amount", "amount_first", "amount_last"}, pad \in Pads :
     \E token \in NonEmptySeqsUpTo(TokChars, MaxLen - 4) :
     \E ws1 \in NonEmptySeqsUpTo(WsChars, MaxLen - 3 - Len(token)) :
     \E digits \in NonEmptySeqsUpTo(AmountChars, MaxLen - 2 - Len(token) - Len(ws1)) :
     \E ws2 \in NonEmptySeqsUpTo(WsChars, MaxLen - 1 - Len(token) - Len(ws1) - Len(digits)) :
     \E desc \in Descs(MaxLen - Len(token) - Len(ws1) - Len(digits) - Len(ws2)) :
       /\ shape = "no_amount" => digits = <<"0">> /\ ws2 = <<" ">>
       /\ shape = "amount_first" => HasNonDigit(token)
       /\ shape \in {"no_amount", "amount_last"} => FirstWordNotNumber(desc)
       /\ pm = [shape |-> shape, token |-> token, digits |-> digits, desc |-> desc,
                text |-> Message(shape, pad, token, ws1, digits, ws2, desc),
                done |-> FALSE, result |-> NoMatch]

CallParse ==
  /\ pm.shape # "idle" /\ ~pm.done
  /\ pm' = [pm EXCEPT !.done = TRUE, !.result = parse_expense_message(pm.text)]
  /\ UNCHANGED <<now, ledger, summary, reply, last, hist, ti>>

NextParse == CallParse

SpecParse == InitParse /\ [][NextParse]_vars

Expected(token, digits, desc) ==
  [matched |-> TRUE, kategori |-> Lower(token), jumlah |-> IntOfDigits(digits),
   deskripsi |-> desc]

\* C9 as stated: every message <token><ws><digits><ws><desc> parses to
\* (token lower-cased, int(digits), desc), whatever desc holds; a message
\* without the numeric field or with the fields in another order gives the
\* no-match sentinel.
C9_ParseAnyDesc ==
  pm.done =>
    /\ pm.shape = "valid" => pm.result = Expected(pm.token, pm.digits, pm.desc)
    /\ pm.shape \in {"no_amount", "amount_first", "amount_last"} => pm.result = NoMatch

\* C9 amended: the same, for a desc that holds no line feed.
C9_ParseSingleLineDesc ==
  pm.done =>
    /\ (pm.shape = "valid" /\ \A i \in DOMAIN pm.desc : pm.desc[i] # "\n")
         => pm.result = Expected(pm.token, pm.digits, pm.desc)
    /\ pm.shape \in {"no_amount", "amount_first", "amount_last"} => pm.result = NoMatch

\* a message with an upper-case token and a two-digit amount with a leading
\* zero has been parsed
C9_Witness ==
  /\ pm.done /\ pm.shape = "valid" /\ pm.result.matched
  /\ pm.token = <<"B">> /\ pm.digits = <<"0", "7">> /\ pm.desc = <<"x", "1">>
  /\ pm.result.jumlah = 7

====
